---- MODULE Spec2Model ----
(***************************************************************************)
(* The get-generated-content edge function (src/index.ts): one HTTP        *)
(* handler that answers the CORS preflight, otherwise parses               *)
(* {actionKey, chatHistory}, reads the provider API key, builds the        *)
(* transcript and the prompt, calls the generative model once and returns  *)
(* {text} or, on any failure, {error} with status 500.                     *)
(*                                                                         *)
(* Strings are sequences of one-character strings, so that concatenation,  *)
(* joining and JSON escaping are computed rather than assumed.             *)
(***************************************************************************)
EXTENDS Integers, Sequences, FiniteSets, TLC

\* Number of requests the runtime serves concurrently.
NumReqs == 2

Reqs == 1..NumReqs

VARIABLES
  apiKey,            \* Deno.env GOOGLE_AI_API_KEY: undefined or a string, read-only
  pc,                \* per request: idle, received, parsing, awaiting, responded
  req,               \* per request: the method and the body it arrived with
  conversationText,  \* per request: << >> until line 26 has run, then <<transcript>>
  actionDescription, \* per request: << >> until the switch picked a case, then <<instruction>>
  calls,             \* per request: the prompts passed to model.generateContent, in order
  result,            \* per request: << >> or <<outcome of the provider call>>
  responses,         \* per request: the Responses the handler returned, in order
  console            \* the process's console: the lines written so far

vars == <<apiKey, pc, req, conversationText, actionDescription, calls, result, responses, console>>

----------------------------------------------------------------------------
\* String constants of the source, of its inputs and of the specification's
\* table and examples, character by character.

\* '\n      You are an expert AI assistant providing drafting support to UK tenants.\n      Based on the following conversation history, your task is to generate a specific document.\n\n      Action Required: '
PromptPreamble ==
  <<"\n"," "," "," "," "," "," ","Y","o","u"," ","a","r","e"," ","a","n"," ","e","x","p","e","r",
    "t"," ","A","I"," ","a","s","s","i","s","t","a","n","t"," ","p","r","o","v","i","d","i","n",
    "g"," ","d","r","a","f","t","i","n","g"," ","s","u","p","p","o","r","t"," ","t","o"," ","U",
    "K"," ","t","e","n","a","n","t","s",".","\n"," "," "," "," "," "," ","B","a","s","e","d"," ",
    "o","n"," ","t","h","e"," ","f","o","l","l","o","w","i","n","g"," ","c","o","n","v","e","r",
    "s","a","t","i","o","n"," ","h","i","s","t","o","r","y",","," ","y","o","u","r"," ","t","a",
    "s","k"," ","i","s"," ","t","o"," ","g","e","n","e","r","a","t","e"," ","a"," ","s","p","e",
    "c","i","f","i","c"," ","d","o","c","u","m","e","n","t",".","\n","\n"," "," "," "," "," "," ",
    "A","c","t","i","o","n"," ","R","e","q","u","i","r","e","d",":"," ">>

\* '\n\n      Conversation History:\n      '
PromptHistoryHeading ==
  <<"\n","\n"," "," "," "," "," "," ","C","o","n","v","e","r","s","a","t","i","o","n"," ","H","i",
    "s","t","o","r","y",":","\n"," "," "," "," "," "," ">>

\* '\n\n      Instructions:\n      1. Review the entire conversation to understand the user\'s specific problem.\n      2. Generate the requested document with a professional and appropriate tone.\n      3. Use placeholders like "[Your Name]" or "[Date]" where needed.\n      4. IMPORTANT: Return ONLY the generated text. Do not add any conversational intros or summaries.\n    '
PromptInstructions ==
  <<"\n","\n"," "," "," "," "," "," ","I","n","s","t","r","u","c","t","i","o","n","s",":","\n"," ",
    " "," "," "," "," ","1","."," ","R","e","v","i","e","w"," ","t","h","e"," ","e","n","t","i",
    "r","e"," ","c","o","n","v","e","r","s","a","t","i","o","n"," ","t","o"," ","u","n","d","e",
    "r","s","t","a","n","d"," ","t","h","e"," ","u","s","e","r","'","s"," ","s","p","e","c","i",
    "f","i","c"," ","p","r","o","b","l","e","m",".","\n"," "," "," "," "," "," ","2","."," ","G",
    "e","n","e","r","a","t","e"," ","t","h","e"," ","r","e","q","u","e","s","t","e","d"," ","d",
    "o","c","u","m","e","n","t"," ","w","i","t","h"," ","a"," ","p","r","o","f","e","s","s","i",
    "o","n","a","l"," ","a","n","d"," ","a","p","p","r","o","p","r","i","a","t","e"," ","t","o",
    "n","e",".","\n"," "," "," "," "," "," ","3","."," ","U","s","e"," ","p","l","a","c","e","h",
    "o","l","d","e","r","s"," ","l","i","k","e"," ","\"","[","Y","o","u","r"," ","N","a","m","e",
    "]","\""," ","o","r"," ","\"","[","D","a","t","e","]","\""," ","w","h","e","r","e"," ","n","e",
    "e","d","e","d",".","\n"," "," "," "," "," "," ","4","."," ","I","M","P","O","R","T","A","N",
    "T",":"," ","R","e","t","u","r","n"," ","O","N","L","Y"," ","t","h","e"," ","g","e","n","e",
    "r","a","t","e","d"," ","t","e","x","t","."," ","D","o"," ","n","o","t"," ","a","d","d"," ",
    "a","n","y"," ","c","o","n","v","e","r","s","a","t","i","o","n","a","l"," ","i","n","t","r",
    "o","s"," ","o","r"," ","s","u","m","m","a","r","i","e","s",".","\n"," "," "," "," ">>

\* 'email_landlord'
Key_email_landlord ==
  <<"e","m","a","i","l","_","l","a","n","d","l","o","r","d">>

\* 'Draft a polite but firm email to the landlord.'
Desc_email_landlord ==
  <<"D","r","a","f","t"," ","a"," ","p","o","l","i","t","e"," ","b","u","t"," ","f","i","r","m",
    " ","e","m","a","i","l"," ","t","o"," ","t","h","e"," ","l","a","n","d","l","o","r","d",".">>

\* 'dispute_message'
Key_dispute_message ==
  <<"d","i","s","p","u","t","e","_","m","e","s","s","a","g","e">>

\* 'Draft a clear, factual dispute message for a tenancy deposit scheme.'
Desc_dispute_message ==
  <<"D","r","a","f","t"," ","a"," ","c","l","e","a","r",","," ","f","a","c","t","u","a","l"," ",
    "d","i","s","p","u","t","e"," ","m","e","s","s","a","g","e"," ","f","o","r"," ","a"," ","t",
    "e","n","a","n","c","y"," ","d","e","p","o","s","i","t"," ","s","c","h","e","m","e",".">>

\* 'step_by_step_guide'
Key_step_by_step_guide ==
  <<"s","t","e","p","_","b","y","_","s","t","e","p","_","g","u","i","d","e">>

\* 'Create a simple, step-by-step guide on how to proceed.'
Desc_step_by_step_guide ==
  <<"C","r","e","a","t","e"," ","a"," ","s","i","m","p","l","e",","," ","s","t","e","p","-","b",
    "y","-","s","t","e","p"," ","g","u","i","d","e"," ","o","n"," ","h","o","w"," ","t","o"," ",
    "p","r","o","c","e","e","d",".">>

\* 'email_council'
Key_email_council ==
  <<"e","m","a","i","l","_","c","o","u","n","c","i","l">>

\* "Draft a formal email to the local council's housing team."
Desc_email_council ==
  <<"D","r","a","f","t"," ","a"," ","f","o","r","m","a","l"," ","e","m","a","i","l"," ","t","o",
    " ","t","h","e"," ","l","o","c","a","l"," ","c","o","u","n","c","i","l","'","s"," ","h","o",
    "u","s","i","n","g"," ","t","e","a","m",".">>

\* 'call_council'
Key_call_council ==
  <<"c","a","l","l","_","c","o","u","n","c","i","l">>

\* 'Create a bullet-point list of key points for a phone call to the council.'
Desc_call_council ==
  <<"C","r","e","a","t","e"," ","a"," ","b","u","l","l","e","t","-","p","o","i","n","t"," ","l",
    "i","s","t"," ","o","f"," ","k","e","y"," ","p","o","i","n","t","s"," ","f","o","r"," ","a",
    " ","p","h","o","n","e"," ","c","a","l","l"," ","t","o"," ","t","h","e"," ","c","o","u","n",
    "c","i","l",".">>

\* 'Missing Google AI API Key'
MissingKeyMessage ==
  <<"M","i","s","s","i","n","g"," ","G","o","o","g","l","e"," ","A","I"," ","A","P","I"," ","K",
    "e","y">>

\* 'Unknown action key: '
UnknownActionPrefix ==
  <<"U","n","k","n","o","w","n"," ","a","c","t","i","o","n"," ","k","e","y",":"," ">>

\* 'Error in get-generated-content:'
LogPrefix ==
  <<"E","r","r","o","r"," ","i","n"," ","g","e","t","-","g","e","n","e","r","a","t","e","d","-",
    "c","o","n","t","e","n","t",":">>

\* 'Function "get-generated-content" has been initialized.'
StartupLine ==
  <<"F","u","n","c","t","i","o","n"," ","\"","g","e","t","-","g","e","n","e","r","a","t","e","d",
    "-","c","o","n","t","e","n","t","\""," ","h","a","s"," ","b","e","e","n"," ","i","n","i","t",
    "i","a","l","i","z","e","d",".">>

\* 'ok'
OkBody ==
  <<"o","k">>

\* 'Unexpected end of JSON input'
SyntaxErrorMessage ==
  <<"U","n","e","x","p","e","c","t","e","d"," ","e","n","d"," ","o","f"," ","J","S","O","N"," ",
    "i","n","p","u","t">>

\* "Cannot destructure property 'actionKey' of '(intermediate value)' as it is null."
DestructureNullMessage ==
  <<"C","a","n","n","o","t"," ","d","e","s","t","r","u","c","t","u","r","e"," ","p","r","o","p",
    "e","r","t","y"," ","'","a","c","t","i","o","n","K","e","y","'"," ","o","f"," ","'","(","i",
    "n","t","e","r","m","e","d","i","a","t","e"," ","v","a","l","u","e",")","'"," ","a","s"," ",
    "i","t"," ","i","s"," ","n","u","l","l",".">>

\* "Cannot read properties of undefined (reading 'map')"
MapOfUndefinedMessage ==
  <<"C","a","n","n","o","t"," ","r","e","a","d"," ","p","r","o","p","e","r","t","i","e","s"," ",
    "o","f"," ","u","n","d","e","f","i","n","e","d"," ","(","r","e","a","d","i","n","g"," ","'",
    "m","a","p","'",")">>

\* "Cannot read properties of null (reading 'map')"
MapOfNullMessage ==
  <<"C","a","n","n","o","t"," ","r","e","a","d"," ","p","r","o","p","e","r","t","i","e","s"," ",
    "o","f"," ","n","u","l","l"," ","(","r","e","a","d","i","n","g"," ","'","m","a","p","'",")">>

\* 'chatHistory.map is not a function'
MapNotFunctionMessage ==
  <<"c","h","a","t","H","i","s","t","o","r","y",".","m","a","p"," ","i","s"," ","n","o","t"," ",
    "a"," ","f","u","n","c","t","i","o","n">>

\* "Cannot read properties of null (reading 'sender')"
SenderOfNullMessage ==
  <<"C","a","n","n","o","t"," ","r","e","a","d"," ","p","r","o","p","e","r","t","i","e","s"," ",
    "o","f"," ","n","u","l","l"," ","(","r","e","a","d","i","n","g"," ","'","s","e","n","d","e",
    "r","'",")">>

\* 'Cannot convert object to primitive value'
ToPrimitiveMessage ==
  <<"C","a","n","n","o","t"," ","c","o","n","v","e","r","t"," ","o","b","j","e","c","t"," ","t",
    "o"," ","p","r","i","m","i","t","i","v","e"," ","v","a","l","u","e">>

\* 'undefined'
StrUndefined ==
  <<"u","n","d","e","f","i","n","e","d">>

\* 'null'
StrNull ==
  <<"n","u","l","l">>

\* 'true'
StrTrue ==
  <<"t","r","u","e">>

\* 'false'
StrFalse ==
  <<"f","a","l","s","e">>

\* '[object Object]'
StrObject ==
  <<"[","o","b","j","e","c","t"," ","O","b","j","e","c","t","]">>

\* 'bogus'
Bogus ==
  <<"b","o","g","u","s">>

\* 'user'
User ==
  <<"u","s","e","r">>

\* 'bot'
Bot ==
  <<"b","o","t">>

\* 'Hi'
Hi ==
  <<"H","i">>

\* 'Hello'
Hello ==
  <<"H","e","l","l","o">>

\* 'user: Hi\nbot: Hello'
ExampleTranscript ==
  <<"u","s","e","r",":"," ","H","i","\n","b","o","t",":"," ","H","e","l","l","o">>

\* "My landlord won't fix the heating"
HeatingText ==
  <<"M","y"," ","l","a","n","d","l","o","r","d"," ","w","o","n","'","t"," ","f","i","x"," ","t",
    "h","e"," ","h","e","a","t","i","n","g">>

\* 'He said "no"\nC:\\flat'
QuotedText ==
  <<"H","e"," ","s","a","i","d"," ","\"","n","o","\"","\n","C",":","\\","f","l","a","t">>

\* 'Dear [Landlord],\nPlease "fix" the heating.\\n'
DraftedEmail ==
  <<"D","e","a","r"," ","[","L","a","n","d","l","o","r","d","]",",","\n","P","l","e","a","s","e",
    " ","\"","f","i","x","\""," ","t","h","e"," ","h","e","a","t","i","n","g",".","\\","n">>

\* 'quota exceeded'
QuotaMessage ==
  <<"q","u","o","t","a"," ","e","x","c","e","e","d","e","d">>

\* 'Response was blocked'
BlockedMessage ==
  <<"R","e","s","p","o","n","s","e"," ","w","a","s"," ","b","l","o","c","k","e","d">>

\* 'K'
ApiKeyValue ==
  <<"K">>

\* 'Draft a polite but firm email to the landlord.'
SpecInstr_email_landlord ==
  <<"D","r","a","f","t"," ","a"," ","p","o","l","i","t","e"," ","b","u","t"," ","f","i","r","m",
    " ","e","m","a","i","l"," ","t","o"," ","t","h","e"," ","l","a","n","d","l","o","r","d",".">>

\* 'Draft a clear, factual dispute message for a tenancy deposit scheme.'
SpecInstr_dispute_message ==
  <<"D","r","a","f","t"," ","a"," ","c","l","e","a","r",","," ","f","a","c","t","u","a","l"," ",
    "d","i","s","p","u","t","e"," ","m","e","s","s","a","g","e"," ","f","o","r"," ","a"," ","t",
    "e","n","a","n","c","y"," ","d","e","p","o","s","i","t"," ","s","c","h","e","m","e",".">>

\* 'Create a simple, step-by-step guide on how to proceed.'
SpecInstr_step_by_step_guide ==
  <<"C","r","e","a","t","e"," ","a"," ","s","i","m","p","l","e",","," ","s","t","e","p","-","b",
    "y","-","s","t","e","p"," ","g","u","i","d","e"," ","o","n"," ","h","o","w"," ","t","o"," ",
    "p","r","o","c","e","e","d",".">>

\* "Draft a formal email to the local council's housing team."
SpecInstr_email_council ==
  <<"D","r","a","f","t"," ","a"," ","f","o","r","m","a","l"," ","e","m","a","i","l"," ","t","o",
    " ","t","h","e"," ","l","o","c","a","l"," ","c","o","u","n","c","i","l","'","s"," ","h","o",
    "u","s","i","n","g"," ","t","e","a","m",".">>

\* 'Create a bullet-point list of key points for a phone call to the council.'
SpecInstr_call_council ==
  <<"C","r","e","a","t","e"," ","a"," ","b","u","l","l","e","t","-","p","o","i","n","t"," ","l",
    "i","s","t"," ","o","f"," ","k","e","y"," ","p","o","i","n","t","s"," ","f","o","r"," ","a",
    " ","p","h","o","n","e"," ","c","a","l","l"," ","t","o"," ","t","h","e"," ","c","o","u","n",
    "c","i","l",".">>

----------------------------------------------------------------------------
\* JavaScript values as they come out of JSON.parse or Deno.env.get.

Undefined == [t |-> "undefined"]
JNull == [t |-> "null"]
JBool(b) == [t |-> "boolean", v |-> b]
JNum(n) == [t |-> "number", v |-> n]
JStr(s) == [t |-> "string", v |-> s]
JArr(a) == [t |-> "array", v |-> a]
JObj(o) == [t |-> "object", v |-> o]

\* Property read o.k on a value that is neither null nor undefined.
Get(o, k) == IF o.t = "object" /\ k \in DOMAIN o.v THEN o.v[k] ELSE Undefined

\* Falsy, were the check of line 21 never to fire.
Falsy_Never(x) == FALSE

\* !x for the values Deno.env.get can return.
Falsy(x) == x.t = "undefined" \/ (x.t = "string" /\ x.v = <<>>)

Digits == <<"0", "1", "2", "3", "4", "5", "6", "7", "8", "9">>

RECURSIVE NatToString(_)
NatToString(n) ==
  IF n < 10 THEN <<Digits[n + 1]>>
  ELSE NatToString(n \div 10) \o <<Digits[(n % 10) + 1]>>

\* ToString as applied by a template literal `${x}` throws a TypeError for
\* an object with an own toString property (JSON gives it a value that is
\* not callable, and Object.prototype.valueOf returns no primitive), and for
\* an array holding such an element.
RECURSIVE Convertible(_)
Convertible(x) ==
  CASE x.t = "object" -> "toString" \notin DOMAIN x.v
    [] x.t = "array" -> \A i \in 1..Len(x.v) : Convertible(x.v[i])
    [] OTHER -> TRUE

\* ToString as applied by a template literal `${x}`, where it does not throw.
RECURSIVE ToStr(_)
RECURSIVE ArrayJoin(_, _)
ArrayJoin(a, sep) ==
  IF a = <<>> THEN <<>>
  ELSE LET piece(x) == IF x.t \in {"undefined", "null"} THEN <<>> ELSE ToStr(x)
       IN IF Len(a) = 1 THEN piece(a[1])
          ELSE piece(a[1]) \o sep \o ArrayJoin(Tail(a), sep)
ToStr(x) ==
  CASE x.t = "undefined" -> StrUndefined
    [] x.t = "null" -> StrNull
    [] x.t = "boolean" -> IF x.v THEN StrTrue ELSE StrFalse
    [] x.t = "number" -> NatToString(x.v)
    [] x.t = "string" -> x.v
    [] x.t = "array" -> ArrayJoin(x.v, <<",">>)
    [] x.t = "object" -> StrObject

----------------------------------------------------------------------------
\* Line 26: chatHistory.map(m => `${m.sender}: ${m.text}`).join('\n')

Line(m) == ToStr(Get(m, "sender")) \o <<":", " ">> \o ToStr(Get(m, "text"))

RECURSIVE Join(_, _)
Join(lines, sep) ==
  IF lines = <<>> THEN <<>>
  ELSE IF Len(lines) = 1 THEN lines[1]
  ELSE lines[1] \o sep \o Join(Tail(lines), sep)

\* chatHistory.map(...) throws a TypeError unless chatHistory is an array
\* whose elements are not null and have a sender and a text that convert to
\* strings; the message is the runtime's.
LineThrows(m) ==
  \/ m.t = "null"
  \/ ~Convertible(Get(m, "sender"))
  \/ ~Convertible(Get(m, "text"))

MapThrows(chatHistory) ==
  \/ chatHistory.t # "array"
  \/ \E i \in 1..Len(chatHistory.v) : LineThrows(chatHistory.v[i])

\* The message of the TypeError: for an array, that of the first element
\* the callback fails on.
MapError(chatHistory) ==
  CASE chatHistory.t = "undefined" -> MapOfUndefinedMessage
    [] chatHistory.t = "null" -> MapOfNullMessage
    [] chatHistory.t = "array" ->
         LET bad == {i \in 1..Len(chatHistory.v) : LineThrows(chatHistory.v[i])}
             first == CHOOSE i \in bad : \A j \in bad : i <= j
         IN IF chatHistory.v[first].t = "null" THEN SenderOfNullMessage ELSE ToPrimitiveMessage
    [] OTHER -> MapNotFunctionMessage

\* ConversationText, were the messages taken last to first.
ConversationText_Reversed(chatHistory) ==
  Join([i \in 1..Len(chatHistory.v) |-> Line(chatHistory.v[Len(chatHistory.v) + 1 - i])], <<"\n">>)

ConversationText(chatHistory) ==
  Join([i \in 1..Len(chatHistory.v) |-> Line(chatHistory.v[i])], <<"\n">>)

----------------------------------------------------------------------------
\* Lines 30-48: the switch. << >> stands for the default branch.

\* Switch, were the instructions of the two council cases exchanged.
Switch_Swapped(actionKey) ==
  IF actionKey.t # "string" THEN <<>>
  ELSE CASE actionKey.v = Key_email_landlord -> <<Desc_email_landlord>>
         [] actionKey.v = Key_dispute_message -> <<Desc_dispute_message>>
         [] actionKey.v = Key_step_by_step_guide -> <<Desc_step_by_step_guide>>
         [] actionKey.v = Key_email_council -> <<Desc_call_council>>
         [] actionKey.v = Key_call_council -> <<Desc_email_council>>
         [] OTHER -> <<>>

Switch(actionKey) ==
  IF actionKey.t # "string" THEN <<>>
  ELSE CASE actionKey.v = Key_email_landlord -> <<Desc_email_landlord>>
         [] actionKey.v = Key_dispute_message -> <<Desc_dispute_message>>
         [] actionKey.v = Key_step_by_step_guide -> <<Desc_step_by_step_guide>>
         [] actionKey.v = Key_email_council -> <<Desc_email_council>>
         [] actionKey.v = Key_call_council -> <<Desc_call_council>>
         [] OTHER -> <<>>

\* UnknownActionMessage, were the key left out of the message.
UnknownActionMessage_NoKey(actionKey) == UnknownActionPrefix

UnknownActionMessage(actionKey) == UnknownActionPrefix \o ToStr(actionKey)

\* Line 47: what the default branch throws; building the message can itself throw.
DefaultThrows(actionKey) ==
  IF Convertible(actionKey) THEN UnknownActionMessage(actionKey) ELSE ToPrimitiveMessage

\* Lines 51-65: the template literal.
Prompt(description, transcript) ==
  PromptPreamble \o description \o PromptHistoryHeading \o transcript \o PromptInstructions

----------------------------------------------------------------------------
\* Lines 18-65: the try block up to the provider call, as one synchronous
\* run after req.json() settles. The outcome is either a thrown error or
\* the prompt to pass on, with the locals that were assigned on the way.

Thrown(message, transcript) ==
  [error |-> <<message>>, conversationText |-> transcript,
   actionDescription |-> <<>>, prompt |-> <<>>]

\* TryBlock, were the transcript built before the API key is read.
TryBlock_TranscriptFirst(body, googleApiKey) ==
  IF body.malformed THEN Thrown(SyntaxErrorMessage, <<>>)
  ELSE IF body.json.t = "null" THEN Thrown(DestructureNullMessage, <<>>)
  ELSE LET actionKey == Get(body.json, "actionKey")
           chatHistory == Get(body.json, "chatHistory")
       IN IF MapThrows(chatHistory) THEN Thrown(MapError(chatHistory), <<>>)
          ELSE LET transcript == ConversationText(chatHistory)
                   description == Switch(actionKey)
               IN IF Falsy(googleApiKey) THEN Thrown(MissingKeyMessage, <<transcript>>)
                  ELSE IF description = <<>>
                  THEN Thrown(DefaultThrows(actionKey), <<transcript>>)
                  ELSE [error |-> <<>>, conversationText |-> <<transcript>>,
                        actionDescription |-> description,
                        prompt |-> <<Prompt(description[1], transcript)>>]

TryBlock(body, googleApiKey) ==
  IF body.malformed THEN Thrown(SyntaxErrorMessage, <<>>)
  ELSE IF body.json.t = "null" THEN Thrown(DestructureNullMessage, <<>>)
  ELSE LET actionKey == Get(body.json, "actionKey")
           chatHistory == Get(body.json, "chatHistory")
       IN IF Falsy(googleApiKey) THEN Thrown(MissingKeyMessage, <<>>)
          ELSE IF MapThrows(chatHistory) THEN Thrown(MapError(chatHistory), <<>>)
          ELSE LET transcript == ConversationText(chatHistory)
                   description == Switch(actionKey)
               IN IF description = <<>>
                  THEN Thrown(DefaultThrows(actionKey), <<transcript>>)
                  ELSE [error |-> <<>>, conversationText |-> <<transcript>>,
                        actionDescription |-> description,
                        prompt |-> <<Prompt(description[1], transcript)>>]

----------------------------------------------------------------------------
\* JSON.stringify of a string and of a one-property object.

QuoteChar(c) ==
  CASE c = "\"" -> <<"\\", "\"">>
    [] c = "\\" -> <<"\\", "\\">>
    [] c = "\n" -> <<"\\", "n">>
    [] OTHER -> <<c>>

\* The escapes of the characters of s, one after the other.
Escape(s) ==
  LET upTo[i \in 0..Len(s)] == IF i = 0 THEN <<>> ELSE upTo[i - 1] \o QuoteChar(s[i])
  IN upTo[Len(s)]

\* Quote, were the string put between quotes as it is.
Quote_Raw(s) == <<"\"">> \o s \o <<"\"">>

Quote(s) == <<"\"">> \o Escape(s) \o <<"\"">>

JSONstringify(key, value) == <<"{">> \o Quote(key) \o <<":">> \o Quote(value) \o <<"}">>

----------------------------------------------------------------------------
\* Responses.

corsHeaders ==
  ("Access-Control-Allow-Origin" :> "*") @@
  ("Access-Control-Allow-Headers" :> "authorization, x-client-info, apikey, content-type")

jsonHeaders == ("Content-Type" :> "application/json") @@ corsHeaders

\* PreflightResponse, were the preflight answered like every other request.
PreflightResponse_Json == [status |-> 200, headers |-> jsonHeaders, body |-> OkBody]

\* Line 14.
PreflightResponse == [status |-> 200, headers |-> corsHeaders, body |-> OkBody]

\* Lines 71-73.
SuccessResponse(generatedText) ==
  [status |-> 200, headers |-> jsonHeaders, body |-> JSONstringify(<<"t", "e", "x", "t">>, generatedText)]

\* ErrorResponse, were the status option left out.
ErrorResponse_NoStatus(message) ==
  [status |-> 200, headers |-> jsonHeaders, body |-> JSONstringify(<<"e", "r", "r", "o", "r">>, message)]

\* Lines 77-80.
ErrorResponse(message) ==
  [status |-> 500, headers |-> jsonHeaders, body |-> JSONstringify(<<"e", "r", "r", "o", "r">>, message)]

\* Line 76.
ErrorLine(message) == <<LogPrefix, message>>

----------------------------------------------------------------------------
\* Inputs.

Msg(sender, text) == JObj([sender |-> JStr(sender), text |-> JStr(text)])
Payload(actionKey, chatHistory) ==
  [malformed |-> FALSE, json |-> JObj([actionKey |-> actionKey, chatHistory |-> chatHistory])]
PayloadNoHistory(actionKey) ==
  [malformed |-> FALSE, json |-> JObj([actionKey |-> actionKey])]
PayloadNoKey(chatHistory) ==
  [malformed |-> FALSE, json |-> JObj([chatHistory |-> chatHistory])]
Malformed == [malformed |-> TRUE, json |-> Undefined]

ExampleHistory == JArr(<<Msg(User, Hi), Msg(Bot, Hello)>>)
HeatingHistory == JArr(<<Msg(User, HeatingText)>>)
QuotedHistory == JArr(<<Msg(User, QuotedText), Msg(Bot, Hello)>>)
OddHistory ==
  JArr(<<Msg(User, QuotedText), JObj([text |-> JStr(Hi)]), JNum(42),
         JObj([sender |-> JArr(<<JStr(Bot), JNull, JBool(TRUE)>>), text |-> JNull])>>)

Methods == {"OPTIONS", "POST", "GET"}

Bodies ==
  << Malformed,
     [malformed |-> FALSE, json |-> JNull],
     [malformed |-> FALSE, json |-> JNum(5)],
     Payload(JStr(Key_email_landlord), ExampleHistory),
     Payload(JStr(Key_dispute_message), ExampleHistory),
     Payload(JStr(Key_step_by_step_guide), ExampleHistory),
     Payload(JStr(Key_email_council), ExampleHistory),
     Payload(JStr(Key_call_council), ExampleHistory),
     Payload(JStr(Key_email_landlord), JArr(<<>>)),
     Payload(JStr(Key_email_landlord), HeatingHistory),
     Payload(JStr(Key_call_council), QuotedHistory),
     Payload(JStr(Key_dispute_message), OddHistory),
     Payload(JStr(Key_email_landlord),
             JArr(<<Msg(User, Hi), JObj([sender |-> JObj([toString |-> JNull]), text |-> JStr(Hi)]), JNull>>)),
     Payload(JObj([toString |-> JNum(1)]), JArr(<<>>)),
     PayloadNoHistory(JStr(Key_email_landlord)),
     Payload(JStr(Key_email_council), JNull),
     Payload(JStr(Key_call_council), JStr(Hi)),
     Payload(JStr(Key_email_landlord), JArr(<<Msg(User, Hi), JNull>>)),
     Payload(JStr(Bogus), JArr(<<>>)),
     Payload(JStr(Bogus), ExampleHistory),
     PayloadNoHistory(JStr(Bogus)),
     Payload(JStr(QuotedText), JArr(<<>>)),
     Payload(JArr(<<JStr(Key_email_landlord)>>), JArr(<<>>)),
     PayloadNoKey(ExampleHistory) >>

\* What the provider can do with one call: generateContent rejects,
\* response.text() throws, or response.text() returns a string.
Generated(text) == [kind |-> "text", v |-> text]
Rejected(message) == [kind |-> "generateContent throws", v |-> message]
Unusable(message) == [kind |-> "text() throws", v |-> message]

Outcomes == << Generated(DraftedEmail), Generated(<<>>), Rejected(QuotaMessage), Unusable(BlockedMessage) >>

ApiKeys == { Undefined, JStr(<<>>), JStr(ApiKeyValue) }

\* The inputs used when several requests are in flight together.
ConcMethods == {"OPTIONS", "POST"}
ConcBodies ==
  << Malformed,
     Payload(JStr(Key_email_landlord), ExampleHistory),
     Payload(JStr(Bogus), JArr(<<>>)),
     PayloadNoHistory(JStr(Key_call_council)) >>
ConcOutcomes == << Generated(DraftedEmail), Rejected(QuotaMessage) >>

----------------------------------------------------------------------------
\* The state machine.

NoRequest == [method |-> "", body |-> Malformed]

Init ==
  /\ apiKey \in ApiKeys
  /\ pc = [r \in Reqs |-> "idle"]
  /\ req = [r \in Reqs |-> NoRequest]
  /\ conversationText = [r \in Reqs |-> <<>>]
  /\ actionDescription = [r \in Reqs |-> <<>>]
  /\ calls = [r \in Reqs |-> <<>>]
  /\ result = [r \in Reqs |-> <<>>]
  /\ responses = [r \in Reqs |-> <<>>]
  /\ console = <<<<StartupLine>>>>

\* RequestBody, were the payload kept in one variable shared by all handlers.
RequestBody_Shared(r) == req[1].body

\* Line 18: the body that req.json() of request r reads.
RequestBody(r) == req[r].body

\* serve() hands a request to the handler.
Receive(r, methods, bodies) ==
  /\ pc[r] = "idle"
  /\ \E m \in methods, i \in 1..Len(bodies) :
       req' = [req EXCEPT ![r] = [method |-> m, body |-> bodies[i]]]
  /\ pc' = [pc EXCEPT ![r] = "received"]
  /\ UNCHANGED <<apiKey, conversationText, actionDescription, calls, result, responses, console>>

\* Lines 13-18: the handler runs up to its first await.
Handle(r) ==
  /\ pc[r] = "received"
  /\ IF req[r].method = "OPTIONS"
     THEN /\ responses' = [responses EXCEPT ![r] = Append(@, PreflightResponse)]
          /\ pc' = [pc EXCEPT ![r] = "responded"]
     ELSE /\ pc' = [pc EXCEPT ![r] = "parsing"]
          /\ UNCHANGED responses
  /\ UNCHANGED <<apiKey, req, conversationText, actionDescription, calls, result, console>>

\* Catch, were the error logged and the request closed without a response.
Catch_Silent(r, message) ==
  /\ console' = Append(console, ErrorLine(message))
  /\ responses' = responses
  /\ pc' = [pc EXCEPT ![r] = "responded"]

\* Lines 75-81: the catch block.
Catch(r, message) ==
  /\ console' = Append(console, ErrorLine(message))
  /\ responses' = [responses EXCEPT ![r] = Append(@, ErrorResponse(message))]
  /\ pc' = [pc EXCEPT ![r] = "responded"]

\* Lines 18-67: req.json() settles and the handler runs up to the provider call.
ParseDone(r) ==
  /\ pc[r] = "parsing"
  /\ \E run \in {TryBlock(RequestBody(r), apiKey)} :
        /\ conversationText' = [conversationText EXCEPT ![r] = run.conversationText]
        /\ actionDescription' = [actionDescription EXCEPT ![r] = run.actionDescription]
        /\ IF run.error # <<>>
           THEN /\ Catch(r, run.error[1])
                /\ UNCHANGED calls
           ELSE /\ calls' = [calls EXCEPT ![r] = Append(@, run.prompt[1])]
                /\ pc' = [pc EXCEPT ![r] = "awaiting"]
                /\ UNCHANGED <<responses, console>>
  /\ UNCHANGED <<apiKey, req, result>>

\* Lines 67-73: the provider call settles.
ProviderDone(r, outcomes) ==
  /\ pc[r] = "awaiting"
  /\ \E i \in 1..Len(outcomes) :
       LET outcome == outcomes[i]
       IN /\ result' = [result EXCEPT ![r] = <<outcome>>]
          /\ IF outcome.kind = "text"
             THEN /\ responses' = [responses EXCEPT ![r] = Append(@, SuccessResponse(outcome.v))]
                  /\ pc' = [pc EXCEPT ![r] = "responded"]
                  /\ UNCHANGED console
             ELSE Catch(r, outcome.v)
  /\ UNCHANGED <<apiKey, req, conversationText, actionDescription, calls>>

\* One request at a time, over the full range of inputs.
ReceiveAlone(r) ==
  /\ \A s \in Reqs : pc[s] = "idle"
  /\ Receive(r, Methods, Bodies)

Next ==
  \E r \in Reqs :
    \/ ReceiveAlone(r)
    \/ Handle(r)
    \/ ParseDone(r)
    \/ ProviderDone(r, Outcomes)

Spec == Init /\ [][Next]_vars

\* Several requests in flight together.
ConcNext ==
  \E r \in Reqs :
    \/ Receive(r, ConcMethods, ConcBodies)
    \/ Handle(r)
    \/ ParseDone(r)
    \/ ProviderDone(r, ConcOutcomes)

ConcSpec == Init /\ [][ConcNext]_vars

\* The runtime resumes every handler whose awaited promise has settled, and
\* the provider call is assumed to settle.
FairSpec ==
  /\ ConcSpec
  /\ \A r \in Reqs : WF_vars(Handle(r)) /\ WF_vars(ParseDone(r)) /\ WF_vars(ProviderDone(r, ConcOutcomes))

----------------------------------------------------------------------------
\* Reading a response body back: JSON.parse restricted to an object with
\* one string-valued property, which is all the handler ever serializes.

NoParse == [valid |-> FALSE, key |-> <<>>, value |-> <<>>]

\* The number of backslashes in a row that end just before position p of s,
\* looking no further back than lo.
BackslashRun(s, lo, p) ==
  LET others == {k \in lo..(p - 1) : s[k] # "\\"}
  IN IF others = {} THEN p - lo
     ELSE p - 1 - (CHOOSE k \in others : \A j \in others : j <= k)

\* Position p introduces an escape: a backslash that is not itself escaped.
Introducer(s, lo, p) == s[p] = "\\" /\ BackslashRun(s, lo, p) % 2 = 0

\* The characters that positions lo..hi of a string literal stand for.
RECURSIVE Decode(_, _, _, _)
Decode(s, from, lo, hi) ==
  IF lo > hi THEN <<>>
  ELSE IF lo = hi
       THEN IF Introducer(s, from, lo) THEN <<>>
            ELSE IF BackslashRun(s, from, lo) % 2 = 1 /\ s[lo] = "n" THEN <<"\n">>
            ELSE <<s[lo]>>
  ELSE LET mid == (lo + hi) \div 2
       IN Decode(s, from, lo, mid) \o Decode(s, from, mid + 1, hi)

\* The string literal of s whose first character after the opening quote is
\* at i: its value and the index after the closing quote (0 if ill-formed).
ScanString(s, i) ==
  LET closers == {p \in i..Len(s) : s[p] = "\"" /\ BackslashRun(s, i, p) % 2 = 0}
  IN IF closers = {} THEN [v |-> <<>>, next |-> 0]
     ELSE LET close == CHOOSE p \in closers : \A q \in closers : p <= q
              wellFormed ==
                \A p \in i..(close - 1) :
                  /\ s[p] # "\n"
                  /\ (p > i /\ Introducer(s, i, p - 1)) => s[p] \in {"n", "\"", "\\"}
          IN IF wellFormed THEN [v |-> Decode(s, i, i, close - 1), next |-> close + 1]
             ELSE [v |-> <<>>, next |-> 0]

JSONparse(s) ==
  IF Len(s) < 2 \/ s[1] # "{" \/ s[2] # "\"" THEN NoParse
  ELSE LET k == ScanString(s, 3)
       IN IF k.next = 0 \/ k.next + 1 > Len(s) \/ s[k.next] # ":" \/ s[k.next + 1] # "\""
          THEN NoParse
          ELSE LET v == ScanString(s, k.next + 2)
               IN IF v.next = 0 \/ v.next # Len(s) \/ s[v.next] # "}"
                  THEN NoParse
                  ELSE [valid |-> TRUE, key |-> k.v, value |-> v.v]

TextKey == <<"t", "e", "x", "t">>
ErrorKey == <<"e", "r", "r", "o", "r">>

\* The action table of the specification, section 4.1.
SpecTable ==
  (Key_email_landlord :> SpecInstr_email_landlord) @@
  (Key_dispute_message :> SpecInstr_dispute_message) @@
  (Key_step_by_step_guide :> SpecInstr_step_by_step_guide) @@
  (Key_email_council :> SpecInstr_email_council) @@
  (Key_call_council :> SpecInstr_call_council)

\* Facts about a request's own inputs.
Responded(r) == pc[r] = "responded"
IsPreflight(r) == req[r].method = "OPTIONS"
Answered(r) == Responded(r) /\ ~IsPreflight(r)
BodyParsed(r) == ~req[r].body.malformed /\ req[r].body.json.t # "null"
ActionKeyOf(r) == Get(req[r].body.json, "actionKey")
ChatHistoryOf(r) == Get(req[r].body.json, "chatHistory")
InTable(k) == k.t = "string" /\ k.v \in DOMAIN SpecTable
KeyConfigured == apiKey.t = "string" /\ apiKey.v # <<>>
Mappable(h) ==
  /\ h.t = "array"
  /\ \A i \in 1..Len(h.v) :
       /\ h.v[i].t # "null"
       /\ Convertible(Get(h.v[i], "sender")) /\ Convertible(Get(h.v[i], "text"))
UnknownKeyError(k) == IF Convertible(k) THEN UnknownActionPrefix \o ToStr(k) ELSE ToPrimitiveMessage
ProviderReturnedText(r) == result[r] # <<>> /\ result[r][1].kind = "text"
ProviderFailed(r) == result[r] # <<>> /\ result[r][1].kind # "text"

\* The one response of a request, and what its body says.
TheResponse(r) == responses[r][1]
BodyOf(r) == JSONparse(TheResponse(r).body)
IsErrorResponse(r, message) ==
  /\ Len(responses[r]) = 1
  /\ TheResponse(r).status = 500
  /\ BodyOf(r) = [valid |-> TRUE, key |-> ErrorKey, value |-> message]

----------------------------------------------------------------------------
\* C1 (as stated): a request whose parsed body carries an actionKey outside
\* the table is answered 500 with error "Unknown action key: <key>",
\* whatever the API-key configuration and chatHistory are.
C1_UnknownKeyAlways ==
  \A r \in Reqs :
    Answered(r) /\ BodyParsed(r) /\ ~InTable(ActionKeyOf(r))
      => IsErrorResponse(r, UnknownActionPrefix \o ToStr(ActionKeyOf(r)))

\* C1 (amended): such a request is always answered 500 with an error body
\* and without a provider call; the error is "Unknown action key: <key>"
\* exactly when the API key is configured, chatHistory is an array whose
\* elements are not null and have a sender and text that convert to
\* strings, and the key itself converts to a string; otherwise it is the
\* message of the failure met first.
C1_UnknownKey ==
  \A r \in Reqs :
    Answered(r) /\ BodyParsed(r) /\ ~InTable(ActionKeyOf(r))
      => /\ Len(responses[r]) = 1
         /\ TheResponse(r).status = 500
         /\ BodyOf(r).valid /\ BodyOf(r).key = ErrorKey
         /\ calls[r] = <<>>
         /\ IF KeyConfigured /\ Mappable(ChatHistoryOf(r)) /\ Convertible(ActionKeyOf(r))
            THEN BodyOf(r).value = UnknownActionPrefix \o ToStr(ActionKeyOf(r))
            ELSE BodyOf(r).value # UnknownActionPrefix \o ToStr(ActionKeyOf(r))

C1_Witness ==
  \E r \in Reqs :
    /\ Answered(r) /\ BodyParsed(r) /\ KeyConfigured
    /\ ActionKeyOf(r) = JStr(Bogus) /\ ChatHistoryOf(r) = JArr(<<>>)
    /\ IsErrorResponse(r, UnknownActionPrefix \o Bogus)

\* C2 (as stated): with the API key absent, every non-OPTIONS request is
\* answered 500 with error "Missing Google AI API Key" and no provider call.
C2_MissingKeyAlways ==
  \A r \in Reqs :
    Answered(r) /\ apiKey = Undefined
      => IsErrorResponse(r, MissingKeyMessage) /\ calls[r] = <<>>

\* C2 (amended): with the API key absent or empty, every non-OPTIONS request
\* is answered 500 without a provider call, and the error is "Missing Google
\* AI API Key" exactly when the body parsed as JSON to a non-null value,
\* whatever actionKey and chatHistory are.
C2_MissingKey ==
  \A r \in Reqs :
    Answered(r) /\ (apiKey = Undefined \/ apiKey = JStr(<<>>))
      => /\ Len(responses[r]) = 1
         /\ TheResponse(r).status = 500
         /\ BodyOf(r).valid /\ BodyOf(r).key = ErrorKey
         /\ calls[r] = <<>> /\ result[r] = <<>>
         /\ (BodyOf(r).value = MissingKeyMessage) <=> BodyParsed(r)

C2_Witness ==
  \E r \in Reqs :
    /\ Answered(r) /\ apiKey = Undefined /\ BodyParsed(r)
    /\ InTable(ActionKeyOf(r)) /\ Mappable(ChatHistoryOf(r))
    /\ IsErrorResponse(r, MissingKeyMessage)

\* The preflight answer apart from its body.
PreflightShape(r) ==
  /\ Len(responses[r]) = 1
  /\ TheResponse(r).status = 200
  /\ DOMAIN TheResponse(r).headers = {"Access-Control-Allow-Origin", "Access-Control-Allow-Headers"}
  /\ TheResponse(r).headers["Access-Control-Allow-Origin"] = "*"
  /\ TheResponse(r).headers["Access-Control-Allow-Headers"] = "authorization, x-client-info, apikey, content-type"
  /\ calls[r] = <<>>
  /\ console = <<<<StartupLine>>>>

C4_ExactlyOneResponse ==
  /\ [](\A r \in Reqs : /\ Len(responses[r]) <= 1
                        /\ Responded(r) <=> Len(responses[r]) = 1)
  /\ [][\A r \in Reqs : Responded(r) => pc'[r] = pc[r] /\ responses'[r] = responses[r]]_vars
  /\ \A r \in Reqs :
       (pc[r] = "received") ~>
         (Responded(r) /\ Len(responses[r]) = 1 /\ TheResponse(r).status \in {200, 500})

C4_Witness ==
  /\ \A r \in Reqs : Responded(r) /\ Len(responses[r]) = 1
  /\ \E r \in Reqs : TheResponse(r).status = 200 /\ ~IsPreflight(r)
  /\ \E r \in Reqs : TheResponse(r).status = 500

\* The failure, if any, that the handling of r ran into.
FailedBeforeCall(r) ==
  \/ ~BodyParsed(r)
  \/ ~KeyConfigured
  \/ ~Mappable(ChatHistoryOf(r))
  \/ ~InTable(ActionKeyOf(r))
Failed(r) == FailedBeforeCall(r) \/ ProviderFailed(r)

\* C5: every failure of a non-OPTIONS request (body, API key, chatHistory,
\* actionKey, provider) is answered 500 with a body whose only key is error,
\* holding the message that was written to the error log; a provider
\* failure's message is the provider's own.
C5_FailuresBecome500 ==
  \A r \in Reqs :
    Answered(r) /\ Failed(r)
      => /\ Len(responses[r]) = 1
         /\ TheResponse(r).status = 500
         /\ BodyOf(r).valid /\ BodyOf(r).key = ErrorKey
         /\ console = <<<<StartupLine>>, <<LogPrefix, BodyOf(r).value>>>>
         /\ ProviderFailed(r) => BodyOf(r).value = result[r][1].v
         /\ FailedBeforeCall(r) => calls[r] = <<>>

C5_Witness ==
  \E r \in Reqs :
    /\ Answered(r) /\ ProviderFailed(r)
    /\ result[r][1].kind = "text() throws"
    /\ IsErrorResponse(r, BlockedMessage)

\* C6: a non-OPTIONS request is answered 200 exactly when its body parsed,
\* the API key was configured, actionKey was in the table and the provider
\* returned text; the body then has the single key text, whose value is the
\* provider's text.
C6_SuccessBody ==
  \A r \in Reqs :
    Answered(r)
      => /\ Len(responses[r]) = 1
         /\ (TheResponse(r).status = 200) <=>
              (BodyParsed(r) /\ KeyConfigured /\ InTable(ActionKeyOf(r)) /\ ProviderReturnedText(r))
         /\ TheResponse(r).status = 200 =>
              /\ BodyOf(r) = [valid |-> TRUE, key |-> TextKey, value |-> result[r][1].v]
              /\ TheResponse(r).headers["Content-Type"] = "application/json"

C6_Witness ==
  \E r \in Reqs :
    /\ Answered(r) /\ TheResponse(r).status = 200
    /\ result[r] = <<Generated(DraftedEmail)>>
    /\ BodyOf(r).value = DraftedEmail

\* C7: the prompt passed to the provider embeds, right after the preamble
\* and right before the history heading, exactly the table's instruction
\* for the request's actionKey.
C7_InstructionFromTable ==
  \A r \in Reqs :
    calls[r] # <<>>
      => /\ InTable(ActionKeyOf(r))
         /\ LET instruction == SpecTable[ActionKeyOf(r).v]
                prompt == calls[r][1]
                start == Len(PromptPreamble)
            IN /\ actionDescription[r] = <<instruction>>
               /\ SubSeq(prompt, 1, start) = PromptPreamble
               /\ SubSeq(prompt, start + 1, start + Len(instruction)) = instruction
               /\ SubSeq(prompt, start + Len(instruction) + 1,
                         start + Len(instruction) + Len(PromptHistoryHeading)) = PromptHistoryHeading

C7_Witness ==
  \E r \in Reqs :
    /\ calls[r] # <<>>
    /\ ActionKeyOf(r) = JStr(Key_email_council)
    /\ actionDescription[r] = <<SpecInstr_email_council>>

\* A chatHistory made of ChatMessages: sender and text are strings.
WellFormedHistory(h) ==
  /\ h.t = "array"
  /\ \A i \in 1..Len(h.v) :
       /\ h.v[i].t = "object"
       /\ DOMAIN h.v[i].v = {"sender", "text"}
       /\ h.v[i].v.sender.t = "string" /\ h.v[i].v.text.t = "string"

LineLength(m) == Len(m.v.sender.v) + 2 + Len(m.v.text.v)

RECURSIVE LineStart(_, _)
\* Where line i starts in the transcript of h.
LineStart(h, i) == IF i = 1 THEN 1 ELSE LineStart(h, i - 1) + LineLength(h.v[i - 1]) + 1

\* C8: the transcript holds, for each message in input order, the line
\* "<sender>: <text>", lines separated by one newline, nothing before the
\* first or after the last; the example history gives "user: Hi\nbot: Hello"
\* and the empty history the empty string.
C8_Transcript ==
  \A r \in Reqs :
    conversationText[r] # <<>> /\ WellFormedHistory(ChatHistoryOf(r))
      => LET h == ChatHistoryOf(r)
             n == Len(h.v)
             transcript == conversationText[r][1]
         IN /\ n = 0 => transcript = <<>>
            /\ n > 0 => Len(transcript) = LineStart(h, n) + LineLength(h.v[n]) - 1
            /\ \A i \in 1..n :
                 LET from == LineStart(h, i)
                     sender == h.v[i].v.sender.v
                     text == h.v[i].v.text.v
                 IN /\ SubSeq(transcript, from, from + Len(sender) - 1) = sender
                    /\ SubSeq(transcript, from + Len(sender), from + Len(sender) + 1) = <<":", " ">>
                    /\ SubSeq(transcript, from + Len(sender) + 2, from + LineLength(h.v[i]) - 1) = text
                    /\ i < n => transcript[from + LineLength(h.v[i])] = "\n"
            /\ h = ExampleHistory => transcript = ExampleTranscript

C8_Witness ==
  \E r \in Reqs :
    /\ ChatHistoryOf(r) = ExampleHistory
    /\ conversationText[r] = <<ExampleTranscript>>

\* What request r must be answered with, given only its own method and
\* body, the API key and the outcome of its own provider call.
OwnAnswer(r) ==
  IF IsPreflight(r) THEN PreflightResponse
  ELSE IF ~BodyParsed(r)
       THEN ErrorResponse(IF req[r].body.malformed THEN SyntaxErrorMessage ELSE DestructureNullMessage)
  ELSE IF ~KeyConfigured THEN ErrorResponse(MissingKeyMessage)
  ELSE IF ~Mappable(ChatHistoryOf(r)) THEN ErrorResponse(MapError(ChatHistoryOf(r)))
  ELSE IF ~InTable(ActionKeyOf(r))
       THEN ErrorResponse(UnknownKeyError(ActionKeyOf(r)))
  ELSE IF ProviderReturnedText(r) THEN SuccessResponse(result[r][1].v)
  ELSE ErrorResponse(result[r][1].v)

\* The part of the state that belongs to request r.
Own(r) == <<pc[r], req[r], conversationText[r], actionDescription[r], calls[r], result[r], responses[r]>>

\* C9: with several requests in flight, each response is the one fixed by
\* the request's own method and body, the API key and its own provider
\* outcome; a step of one request leaves every other request's state as it
\* was, and the API key never changes.
C9_Independent ==
  /\ [](\A r \in Reqs : Responded(r) => responses[r] = <<OwnAnswer(r)>>)
  /\ [][/\ apiKey' = apiKey
        /\ \A r \in Reqs : Own(r)' # Own(r) => \A s \in Reqs \ {r} : Own(s)' = Own(s)]_vars

C9_Witness ==
  \E r, s \in Reqs :
    /\ r # s
    /\ Responded(r) /\ TheResponse(r).status = 500 /\ ProviderFailed(r)
    /\ Responded(s) /\ TheResponse(s).status = 200 /\ ProviderReturnedText(s)
    /\ req[r] = req[s]

\* C10: the provider is called at most once per request and never again
\* after a call; a call is made only for a non-OPTIONS request whose body
\* parsed, with the API key configured, the transcript built and the
\* actionKey resolved; a request failing a check is answered without a
\* call, with the error of the first check it fails in the order parse,
\* key, transcript, action.
C10_CallOrder ==
  /\ [](\A r \in Reqs :
          /\ Len(calls[r]) <= 1
          /\ calls[r] # <<>> =>
               /\ ~IsPreflight(r) /\ BodyParsed(r) /\ KeyConfigured
               /\ conversationText[r] # <<>> /\ actionDescription[r] # <<>>
               /\ InTable(ActionKeyOf(r))
          /\ Answered(r) /\ FailedBeforeCall(r) =>
               /\ calls[r] = <<>> /\ result[r] = <<>>
               /\ BodyOf(r).valid /\ BodyOf(r).key = ErrorKey
               /\ BodyOf(r).value =
                    IF ~BodyParsed(r)
                    THEN (IF req[r].body.malformed THEN SyntaxErrorMessage ELSE DestructureNullMessage)
                    ELSE IF ~KeyConfigured THEN MissingKeyMessage
                    ELSE IF ~Mappable(ChatHistoryOf(r)) THEN MapError(ChatHistoryOf(r))
                    ELSE UnknownKeyError(ActionKeyOf(r))
               /\ (conversationText[r] # <<>>) <=>
                    (BodyParsed(r) /\ KeyConfigured /\ Mappable(ChatHistoryOf(r))))
  /\ [][\A r \in Reqs : calls'[r] # calls[r] => calls[r] = <<>> /\ pc[r] = "parsing"]_vars

C10_Witness ==
  \E r \in Reqs :
    /\ Answered(r) /\ ~KeyConfigured /\ BodyParsed(r)
    /\ ~Mappable(ChatHistoryOf(r)) /\ ~InTable(ActionKeyOf(r))
    /\ IsErrorResponse(r, MissingKeyMessage)

====
